---- MODULE Spec2Model ----
(***************************************************************************)
(* A model of optuna/integration/comet.py: the CometCallback reporter.     *)
(*                                                                         *)
(* The reporter object is the pair (_metric_name, _comet_kwargs) set by    *)
(* __init__.  Every invocation of __call__ is a frame with its own locals  *)
(* (names, metrics, attributes, exp) and a program counter named after the *)
(* source line it is about to execute.  The Comet.ml service is the list   *)
(* `experiments` of the sessions comet_ml.APIExperiment has created, each  *)
(* with the log of the calls it has received.                              *)
(*                                                                         *)
(* Line 128 evaluates the annotation comet_ml.APIExperiment when the class *)
(* body runs, so the class exists only when the import of line 13 worked:  *)
(* _imports.check() of line 80 cannot fail on an existing class.           *)
(***************************************************************************)
EXTENDS Integers, Sequences, FiniteSets, TLC

VARIABLES
    init,             \* the call of __init__: its arguments, position, exception
    _metric_name,     \* self._metric_name (PyNone until __init__ sets it)
    _comet_kwargs,    \* self._comet_kwargs (PyNone until __init__ sets it)
    frames,           \* the invocations of __call__, in the order they began
    experiments       \* the sessions created by comet_ml.APIExperiment

vars == <<init, _metric_name, _comet_kwargs, frames, experiments>>

(***************************************************************************)
(* Bounds of the model.                                                    *)
(***************************************************************************)
MaxValues == 2        \* longest trial.values
MaxCalls == 2         \* invocations of __call__ in one behaviour

(***************************************************************************)
(* Python values.  Every object is a record of the same shape, so that any *)
(* two objects can be compared: its type, its text (the characters of a    *)
(* str, the decimal digits of an int) and its items (of a list or, as      *)
(* <<key, value>> pairs in insertion order, of a dict).                    *)
(***************************************************************************)
PyNone == [type |-> "NoneType", val |-> "None", items |-> <<>>]
PyStr(s) == [type |-> "str", val |-> s, items |-> <<>>]
PyInt(i) == [type |-> "int", val |-> ToString(i), items |-> <<>>]
PyFloat(i) == [type |-> "float", val |-> ToString(i) \o ".0", items |-> <<>>]
PyList(xs) == [type |-> "list", val |-> "", items |-> xs]
PyDict(kvs) == [type |-> "dict", val |-> "", items |-> kvs]

\* len(obj)
PyLen(obj) == IF obj.type = "str" THEN Len(obj.val) ELSE Len(obj.items)

\* bool(obj), as `or` of line 90 tests it
Truthy(obj) ==
    CASE obj.type = "NoneType" -> FALSE
      [] obj.type = "str" -> Len(obj.val) > 0
      [] obj.type = "int" -> obj.val # "0"
      [] obj.type = "float" -> obj.val # "0.0"
      [] OTHER -> Len(obj.items) > 0

\* isinstance(obj, Sequence): str, list and tuple are registered Sequences;
\* int, None, dict and set are not.
IsSequence(obj) == obj.type \in {"str", "list", "tuple"}

\* isinstance(obj, str)
IsStr(obj) == obj.type = "str"

\* a variant that numbers the objectives from one
FormatNameOneBased(name, i) == PyStr(name.val \o "_" \o ToString(i + 1))

\* "{}_{}".format(name, i)
FormatName(name, i) == PyStr(name.val \o "_" \o ToString(i))

\* d[k] = v on a dict given as its <<key, value>> pairs: a key already
\* present keeps its place and takes the new value, a new key is appended.
DictSet(kvs, k, v) ==
    IF \E j \in 1..Len(kvs) : kvs[j][1] = k
    THEN [j \in 1..Len(kvs) |-> IF kvs[j][1] = k THEN <<k, v>> ELSE kvs[j]]
    ELSE Append(kvs, <<k, v>>)

Min(x, y) == IF x < y THEN x ELSE y
Max(x, y) == IF x < y THEN y ELSE x

\* a variant that pads the shorter of the two, as itertools.zip_longest does
ZipLongest(names, values) ==
    [j \in 1..Max(Len(names), Len(values)) |->
        <<IF j <= Len(names) THEN names[j] ELSE PyNone,
          IF j <= Len(values) THEN values[j] ELSE 0>>]

\* zip(names, values): pairs up to the shorter of the two
Zip(names, values) ==
    [j \in 1..Min(Len(names), Len(values)) |-> <<names[j], values[j]>>]

RECURSIVE DictOf(_)
\* {name: value for name, value in pairs}
DictOf(pairs) ==
    IF pairs = <<>> THEN <<>>
    ELSE LET n == Len(pairs)
         IN DictSet(DictOf(SubSeq(pairs, 1, n - 1)), pairs[n][1], pairs[n][2])

\* datetime.timestamp(): a datetime is a day of the epoch and a second of
\* that day; its timestamp is the float of its epoch seconds.
Timestamp(dt) == PyFloat(dt.day * 86400 + dt.second)

(***************************************************************************)
(* Exceptions.                                                             *)
(***************************************************************************)
NoExc == [type |-> "", msg |-> ""]

\* lines 83-87 (the message shows type(metric_name))
TypeErrorOf(metric_name) ==
    [type |-> "TypeError",
     msg |-> "Expected metric_name to be string or sequence of strings, got <class '"
             \o metric_name.type \o "'>."]

\* lines 104-110
ValueErrorOf(n_values, n_names) ==
    [type |-> "ValueError",
     msg |-> "Running multi-objective optimization with " \o ToString(n_values)
             \o " objective values, but " \o ToString(n_names)
             \o " names specified. Match objective values and names, or use default broadcasting."]

\* what a call into comet_ml can raise: an exception of the SDK, which is
\* none of the two this module raises itself
CometErrors == {[type |-> "ConnectionError", msg |-> "comet"]}

(***************************************************************************)
(* Inputs.                                                                 *)
(***************************************************************************)
a == PyStr("a")
b == PyStr("b")
c == PyStr("c")

\* the (metric_name, comet_kwargs) arguments of __init__
InitArgs ==
    { <<PyStr("value"), PyNone>>,
      <<PyList(<<>>), PyDict(<<>>)>>,
      <<PyList(<<a>>), PyNone>>,
      <<PyList(<<a, b>>), PyDict(<< <<PyStr("project"), PyStr("my-project")>> >>)>>,
      <<PyList(<<a, b, c>>), PyNone>>,
      <<PyList(<<a, a>>), PyNone>>,
      <<PyList(<<PyInt(1), PyInt(2)>>), PyNone>>,
      <<PyInt(7), PyNone>>,
      <<PyNone, PyDict(<< <<PyStr("project"), PyStr("my-project")>> >>)>> }

MINIMIZE == [name |-> "MINIMIZE", value |-> 1]
MAXIMIZE == [name |-> "MAXIMIZE", value |-> 2]

MyStudy == [study_name |-> "my_study", directions |-> <<MINIMIZE, MAXIMIZE>>]

T0 == [day |-> 0, second |-> 10]
T1 == [day |-> 0, second |-> 20]
T2 == [day |-> 1, second |-> 5]

\* two kinds of trial with n objective values that differ by position:
\* ascending values, or descending values with other params and timestamps
Ascending(n) ==
    [params |-> PyDict(<< <<PyStr("x"), 15>> >>), values |-> [j \in 1..n |-> j],
     datetime_start |-> T0, datetime_complete |-> T1]

Descending(n) ==
    [params |-> PyDict(<<>>), values |-> [j \in 1..n |-> n + 1 - j],
     datetime_start |-> T1, datetime_complete |-> T2]

\* the trials a study may complete, but for their number
TrialKinds ==
    {Ascending(n) : n \in 0..MaxValues} \cup {Descending(n) : n \in 2..MaxValues}

\* the FrozenTrial of kind d that is the study's trial `number`
FrozenTrial(d, number) ==
    [params |-> d.params, values |-> d.values, number |-> number,
     datetime_start |-> d.datetime_start,
     datetime_complete |-> d.datetime_complete]

Threads == {"t1", "t2"}

(***************************************************************************)
(* Initial state: no reporter, no invocation, no session.                  *)
(***************************************************************************)
Init ==
    /\ init = [pc |-> "new", metric_name |-> PyNone, comet_kwargs |-> PyNone,
               exc |-> NoExc]
    /\ _metric_name = PyNone
    /\ _comet_kwargs = PyNone
    /\ frames = <<>>
    /\ experiments = <<>>

(***************************************************************************)
(* CometCallback.__init__(metric_name, comet_kwargs), lines 74-90.         *)
(***************************************************************************)
__init__(metric_name, comet_kwargs) ==
    /\ init.pc = "new"
    /\ IF ~IsSequence(metric_name)
       THEN /\ init' = [pc |-> "raised", metric_name |-> metric_name,
                        comet_kwargs |-> comet_kwargs,
                        exc |-> TypeErrorOf(metric_name)]
            /\ UNCHANGED <<_metric_name, _comet_kwargs>>
       ELSE /\ init' = [pc |-> "returned", metric_name |-> metric_name,
                        comet_kwargs |-> comet_kwargs, exc |-> NoExc]
            /\ _metric_name' = metric_name
            /\ _comet_kwargs' = IF Truthy(comet_kwargs) THEN comet_kwargs
                                ELSE PyDict(<<>>)
    /\ UNCHANGED <<frames, experiments>>

(***************************************************************************)
(* CometCallback.__call__(study, trial), lines 92-124.                     *)
(***************************************************************************)
Running(f) == f.pc \notin {"returned", "raised"}

\* thread t enters __call__ (line 92)
__call__(t, study, trial) ==
    /\ init.pc = "returned"
    /\ Len(frames) < MaxCalls
    /\ \A i \in 1..Len(frames) : frames[i].thread = t => ~Running(frames[i])
    /\ frames' = Append(frames,
           [thread |-> t, study |-> study, trial |-> trial, pc |-> "L94",
            names |-> <<>>, metrics |-> PyNone, attributes |-> PyNone,
            exp |-> 0, exc |-> NoExc])
    /\ UNCHANGED <<init, _metric_name, _comet_kwargs, experiments>>

\* a variant that rejects missing names only, not extra ones
ResolveNamesMissingOnly(metric_name, values) ==
    IF IsStr(metric_name)
    THEN IF Len(values) > 1
         THEN [exc |-> NoExc,
               names |-> [j \in 1..Len(values) |-> FormatName(metric_name, j - 1)]]
         ELSE [exc |-> NoExc, names |-> <<metric_name>>]
    ELSE IF PyLen(metric_name) < Len(values)
         THEN [exc |-> ValueErrorOf(Len(values), PyLen(metric_name)), names |-> <<>>]
         ELSE [exc |-> NoExc, names |-> metric_name.items]

\* lines 94-113: the names of the metrics, or ValueError
ResolveNames(metric_name, values) ==
    IF IsStr(metric_name)
    THEN IF Len(values) > 1
         THEN [exc |-> NoExc,
               names |-> [j \in 1..Len(values) |-> FormatName(metric_name, j - 1)]]
         ELSE [exc |-> NoExc, names |-> <<metric_name>>]
    ELSE IF PyLen(metric_name) # Len(values)
         THEN [exc |-> ValueErrorOf(Len(values), PyLen(metric_name)), names |-> <<>>]
         ELSE [exc |-> NoExc, names |-> metric_name.items]

\* a variant that keeps the resolved names in self._metric_name
L94Store(i) ==
    /\ frames[i].pc = "L94"
    /\ LET r == ResolveNames(_metric_name, frames[i].trial.values)
       IN /\ frames' = [frames EXCEPT ![i] =
                 IF r.exc # NoExc
                 THEN [@ EXCEPT !.pc = "raised", !.exc = r.exc]
                 ELSE [@ EXCEPT !.pc = "L115", !.names = r.names]]
          /\ _metric_name' = IF r.exc # NoExc THEN _metric_name
                             ELSE PyList(r.names)
    /\ UNCHANGED <<init, _comet_kwargs, experiments>>

L94(i) ==
    /\ frames[i].pc = "L94"
    /\ LET r == ResolveNames(_metric_name, frames[i].trial.values)
       IN frames' = [frames EXCEPT ![i] =
              IF r.exc # NoExc
              THEN [@ EXCEPT !.pc = "raised", !.exc = r.exc]
              ELSE [@ EXCEPT !.pc = "L115", !.names = r.names]]
    /\ UNCHANGED <<init, _metric_name, _comet_kwargs, experiments>>

\* line 115
Metrics(names, values) == PyDict(DictOf(Zip(names, values)))

\* line 116
Attributes(study) ==
    PyDict(<< <<PyStr("direction"),
                PyList([j \in 1..Len(study.directions) |->
                            PyStr(study.directions[j].name)])>> >>)

L115(i) ==
    /\ frames[i].pc = "L115"
    /\ frames' = [frames EXCEPT ![i] =
           [@ EXCEPT !.pc = "L118",
                     !.metrics = Metrics(frames[i].names, frames[i].trial.values),
                     !.attributes = Attributes(frames[i].study)]]
    /\ UNCHANGED <<init, _metric_name, _comet_kwargs, experiments>>

\* a variant that keeps one session and hands it out again
InitializeExperimentPooled(i, r) ==
    /\ frames[i].pc = "L118"
    /\ IF r = NoExc
       THEN /\ experiments' =
                   IF experiments = <<>>
                   THEN <<[kwargs |-> _comet_kwargs, calls |-> <<>>]>>
                   ELSE experiments
            /\ frames' = [frames EXCEPT ![i] =
                   [@ EXCEPT !.pc = "L119", !.exp = 1]]
       ELSE /\ frames' = [frames EXCEPT ![i] =
                   [@ EXCEPT !.pc = "raised", !.exc = r]]
            /\ UNCHANGED experiments
    /\ UNCHANGED <<init, _metric_name, _comet_kwargs>>

\* lines 118 and 128-131: comet_ml.APIExperiment(**self._comet_kwargs)
\* returns a new session, or raises.
_initialize_experiment(i, r) ==
    /\ frames[i].pc = "L118"
    /\ IF r = NoExc
       THEN /\ experiments' = Append(experiments,
                   [kwargs |-> _comet_kwargs, calls |-> <<>>])
            /\ frames' = [frames EXCEPT ![i] =
                   [@ EXCEPT !.pc = "L119", !.exp = Len(experiments) + 1]]
       ELSE /\ frames' = [frames EXCEPT ![i] =
                   [@ EXCEPT !.pc = "raised", !.exc = r]]
            /\ UNCHANGED experiments
    /\ UNCHANGED <<init, _metric_name, _comet_kwargs>>

\* a variant that catches what the session raises and goes on
SessionCallSwallow(i, pc, method, args, next, r) ==
    /\ frames[i].pc = pc
    /\ experiments' = [experiments EXCEPT ![frames[i].exp].calls =
           Append(@, [method |-> method, args |-> args, raised |-> r])]
    /\ frames' = [frames EXCEPT ![i] = [@ EXCEPT !.pc = next]]
    /\ UNCHANGED <<init, _metric_name, _comet_kwargs>>

\* a variant that keeps the session in the reporter (self._exp) instead of
\* the local exp: every call goes to the session created last
SessionCallShared(i, pc, method, args, next, r) ==
    /\ frames[i].pc = pc
    /\ experiments' = [experiments EXCEPT ![Len(experiments)].calls =
           Append(@, [method |-> method, args |-> args, raised |-> r])]
    /\ frames' = [frames EXCEPT ![i] =
           IF r = NoExc THEN [@ EXCEPT !.pc = next]
           ELSE [@ EXCEPT !.pc = "raised", !.exc = r]]
    /\ UNCHANGED <<init, _metric_name, _comet_kwargs>>

\* exp.<method>(*args) at line `pc`: the session receives the call, which
\* returns (r is NoExc, control moves to `next`) or raises r.
SessionCall(i, pc, method, args, next, r) ==
    /\ frames[i].pc = pc
    /\ experiments' = [experiments EXCEPT ![frames[i].exp].calls =
           Append(@, [method |-> method, args |-> args, raised |-> r])]
    /\ frames' = [frames EXCEPT ![i] =
           IF r = NoExc THEN [@ EXCEPT !.pc = next]
           ELSE [@ EXCEPT !.pc = "raised", !.exc = r]]
    /\ UNCHANGED <<init, _metric_name, _comet_kwargs>>

\* line 119
log_parameters(i, r) ==
    SessionCall(i, "L119", "log_parameters", <<frames[i].trial.params>>, "L120", r)

\* line 120
log_metrics(i, r) ==
    SessionCall(i, "L120", "log_metrics", <<frames[i].metrics>>, "L121", r)

\* line 121
add_tags(i, r) ==
    SessionCall(i, "L121", "add_tags",
                <<PyList(<<PyStr(frames[i].study.study_name)>>)>>, "L122", r)

\* line 122
log_other(i, r) ==
    SessionCall(i, "L122", "log_other",
                <<PyStr("trial_step"), PyInt(frames[i].trial.number)>>, "L123", r)

\* a variant that sets the start time from datetime_complete
StartTimeFromComplete(i, r) ==
    SessionCall(i, "L123", "set_start_time",
                <<Timestamp(frames[i].trial.datetime_complete)>>, "L124", r)

\* line 123
set_start_time(i, r) ==
    SessionCall(i, "L123", "set_start_time",
                <<Timestamp(frames[i].trial.datetime_start)>>, "L124", r)

\* line 124, and the return of None that follows it
set_end_time(i, r) ==
    SessionCall(i, "L124", "set_end_time",
                <<Timestamp(frames[i].trial.datetime_complete)>>, "returned", r)

(***************************************************************************)
(* The reporter built from one of `initargs` and called by `threads` for   *)
(* trials of `kinds`, with a service whose calls end in one of `results`.   *)
(***************************************************************************)
NextOf(initargs, threads, kinds, results) ==
    \/ \E args \in initargs : __init__(args[1], args[2])
    \/ \E t \in threads, d \in kinds :
           __call__(t, MyStudy, FrozenTrial(d, Len(frames)))
    \/ \E i \in 1..Len(frames) : L94(i)
    \/ \E i \in 1..Len(frames) : L115(i)
    \/ \E i \in 1..Len(frames), r \in results : _initialize_experiment(i, r)
    \/ \E i \in 1..Len(frames), r \in results : log_parameters(i, r)
    \/ \E i \in 1..Len(frames), r \in results : log_metrics(i, r)
    \/ \E i \in 1..Len(frames), r \in results : add_tags(i, r)
    \/ \E i \in 1..Len(frames), r \in results : log_other(i, r)
    \/ \E i \in 1..Len(frames), r \in results : set_start_time(i, r)
    \/ \E i \in 1..Len(frames), r \in results : set_end_time(i, r)

\* one thread, the calls of one study.optimize loop
Next == NextOf(InitArgs, {"t1"}, TrialKinds, {NoExc} \cup CometErrors)

Spec == Init /\ [][Next]_vars

\* two threads calling the same reporter
ParInitArgs ==
    { <<PyStr("value"), PyNone>>,
      <<PyList(<<a, b>>), PyDict(<< <<PyStr("project"), PyStr("my-project")>> >>)>> }

ParKinds == {Ascending(1), Descending(2)}

NextPar == NextOf(ParInitArgs, Threads, ParKinds, {NoExc} \cup CometErrors)

SpecPar == Init /\ [][NextPar]_vars

(***************************************************************************)
(* Properties.                                                             *)
(***************************************************************************)
FrameIds == 1..Len(frames)

\* the sessions's log of the calls of the invocation f
CallsOf(f) == IF f.exp = 0 THEN <<>> ELSE experiments[f.exp].calls

Digit == <<"0", "1", "2", "3", "4", "5", "6", "7", "8", "9">>

\* the decimal numeral of n < 10
Dec(n) == Digit[n + 1]

HasKey(d, k) == \E j \in 1..Len(d.items) : d.items[j][1] = k

Lookup(d, k) ==
    LET j == CHOOSE j \in 1..Len(d.items) : d.items[j][1] = k IN d.items[j][2]

\* the six calls a session is to receive for the invocation f
ExpectedCalls(f) ==
    << [method |-> "log_parameters", args |-> <<f.trial.params>>],
       [method |-> "log_metrics", args |-> <<f.metrics>>],
       [method |-> "add_tags", args |-> <<PyList(<<PyStr(f.study.study_name)>>)>>],
       [method |-> "log_other",
        args |-> <<PyStr("trial_step"), PyInt(f.trial.number)>>],
       [method |-> "set_start_time",
        args |-> <<PyFloat(f.trial.datetime_start.day * 24 * 60 * 60
                           + f.trial.datetime_start.second)>>],
       [method |-> "set_end_time",
        args |-> <<PyFloat(f.trial.datetime_complete.day * 24 * 60 * 60
                           + f.trial.datetime_complete.second)>>] >>

\* the log `calls` holds the first calls of ExpectedCalls(f), in order
OwnCallsInOrder(calls, f) ==
    /\ Len(calls) <= 6
    /\ \A k \in 1..Len(calls) :
          /\ calls[k].method = ExpectedCalls(f)[k].method
          /\ calls[k].args = ExpectedCalls(f)[k].args

\* the number of session calls that have returned when control is at pc
Returned(pc) ==
    CASE pc = "L119" -> 0
      [] pc = "L120" -> 1
      [] pc = "L121" -> 2
      [] pc = "L122" -> 3
      [] pc = "L123" -> 4
      [] pc = "L124" -> 5
      [] pc = "returned" -> 6

AfterCreation == {"L119", "L120", "L121", "L122", "L123", "L124", "returned"}

\* C1: with a single string name B and a trial of n >= 1 objective values,
\* the mapping log_metrics receives is exactly {B: v_0} when n = 1 and
\* exactly {"B_0": v_0, ..., "B_(n-1)": v_(n-1)}, in that order, when n > 1.
C1_SingleNameMetrics ==
    \A i \in FrameIds :
        LET f == frames[i]
            B == init.metric_name
            v == f.trial.values
            calls == CallsOf(f)
        IN (IsStr(B) /\ Len(v) >= 1) =>
              \A k \in 1..Len(calls) :
                  calls[k].method = "log_metrics" =>
                      calls[k].args =
                          << PyDict(IF Len(v) = 1 THEN << <<B, v[1]>> >>
                                    ELSE [j \in 1..Len(v) |->
                                            <<PyStr(B.val \o "_" \o Dec(j - 1)), v[j]>>]) >>

C1_Witness ==
    \E i \in FrameIds :
        /\ init.metric_name = PyStr("value")
        /\ frames[i].trial.values = <<2, 1>>
        /\ Len(CallsOf(frames[i])) >= 2
        /\ CallsOf(frames[i])[2].method = "log_metrics"
        /\ CallsOf(frames[i])[2].args =
              << PyDict(<< <<PyStr("value_0"), 2>>, <<PyStr("value_1"), 1>> >>) >>

\* C2: with an explicit sequence of names as long as the trial's objective
\* values, the mapping log_metrics receives maps, for every position, the
\* name at that position to the objective value at that position.
C2_ExplicitNamesByPosition ==
    \A i \in FrameIds :
        LET f == frames[i]
            names == init.metric_name
            v == f.trial.values
            calls == CallsOf(f)
        IN (names.type = "list" /\ Len(names.items) = Len(v)) =>
              \A k \in 1..Len(calls) :
                  calls[k].method = "log_metrics" =>
                      \A j \in 1..Len(v) :
                          /\ HasKey(calls[k].args[1], names.items[j])
                          /\ Lookup(calls[k].args[1], names.items[j]) = v[j]

\* C3: with an explicit sequence of k names and a trial of n # k objective
\* values, __call__ raises a ValueError whose message states n and k, and
\* it does so before any network call: the invocation has no session, and
\* no session exists but those of other invocations.
C3_MismatchRaisesBeforeSession ==
    \A i \in FrameIds :
        LET f == frames[i]
            k == Len(init.metric_name.items)
            n == Len(f.trial.values)
        IN (init.metric_name.type = "list" /\ k # n /\ f.pc # "L94") =>
              /\ f.pc = "raised"
              /\ f.exc.type = "ValueError"
              /\ f.exc.msg =
                    "Running multi-objective optimization with " \o Dec(n)
                    \o " objective values, but " \o Dec(k) \o " names specified. "
                    \o "Match objective values and names, or use default broadcasting."
              /\ f.exp = 0
              /\ \A e \in 1..Len(experiments) :
                    \E j \in FrameIds \ {i} : frames[j].exp = e

C3_Witness ==
    \E i \in FrameIds :
        /\ Len(init.metric_name.items) = 3
        /\ Len(frames[i].trial.values) = 2
        /\ frames[i].pc = "raised"
        /\ frames[i].exc.type = "ValueError"

\* C4: __init__ raises TypeError, before any session exists, whenever
\* metric_name is neither a string nor a sequence of strings (an integer, or
\* a sequence with an element that is no string), and returns only for a
\* string or a sequence of strings.
C4_TypeErrorUnlessStrings ==
    LET mn == init.metric_name
        strings == \/ mn.type = "str"
                   \/ /\ mn.type \in {"list", "tuple"}
                      /\ \A j \in 1..Len(mn.items) : mn.items[j].type = "str"
    IN init.pc # "new" =>
          IF strings THEN init.pc = "returned"
          ELSE /\ init.pc = "raised"
               /\ init.exc.type = "TypeError"
               /\ experiments = <<>>

\* C5: an invocation that has passed the name validation and in which no
\* session call has failed has a session, created before any of the calls,
\* that has received log_parameters(trial.params), log_metrics(metrics),
\* add_tags([study.study_name]), log_other("trial_step", trial.number),
\* set_start_time(epoch seconds of datetime_start) and set_end_time(epoch
\* seconds of datetime_complete), once each and in this order, up to the
\* line the invocation has reached: all six when it has returned.
C5_SixCallsInOrder ==
    \A i \in FrameIds :
        LET f == frames[i] IN
        f.pc \in AfterCreation =>
            /\ f.exp \in 1..Len(experiments)
            /\ Len(CallsOf(f)) = Returned(f.pc)
            /\ OwnCallsInOrder(CallsOf(f), f)
            /\ \A k \in 1..Len(CallsOf(f)) : CallsOf(f)[k].raised = NoExc

C5_Witness ==
    \E i \in FrameIds :
        /\ frames[i].pc = "returned"
        /\ Len(CallsOf(frames[i])) = 6
        /\ CallsOf(frames[i])[5].args = <<PyFloat(20)>>
        /\ CallsOf(frames[i])[6].args = <<PyFloat(86405)>>

\* C6: every invocation that has passed the name validation and for which
\* comet_ml.APIExperiment has returned has created exactly one session, with
\* exactly the options given to __init__ (none when None was given); no
\* session belongs to two invocations, there are as many sessions as
\* invocations that created one, an invocation that failed the validation
\* has none, and a session's calls are those of its one invocation.
C6_FreshSessionPerInvocation ==
    /\ \A i \in FrameIds :
          LET f == frames[i] IN
          /\ f.pc \in AfterCreation => f.exp # 0
          /\ (f.pc \in {"L94", "L115", "L118"} \/ f.exc.type = "ValueError")
                => f.exp = 0
          /\ f.exp # 0 =>
                /\ f.exp \in 1..Len(experiments)
                /\ experiments[f.exp].kwargs =
                      (IF init.comet_kwargs = PyNone THEN PyDict(<<>>)
                       ELSE init.comet_kwargs)
                /\ \A j \in FrameIds \ {i} : frames[j].exp # f.exp
    /\ Len(experiments) = Cardinality({i \in FrameIds : frames[i].exp # 0})
    /\ \A e \in 1..Len(experiments) :
          \E i \in FrameIds :
              /\ frames[i].exp = e
              /\ OwnCallsInOrder(experiments[e].calls, frames[i])

C6_Witness ==
    /\ Len(frames) = 2
    /\ frames[1].pc = "returned" /\ frames[1].exp = 1
    /\ frames[2].pc = "returned" /\ frames[2].exp = 2
    /\ experiments[2].kwargs = PyDict(<< <<PyStr("project"), PyStr("my-project")>> >>)

\* C7: when the creation of the session or one of the six session calls
\* raises, __call__ ends with that very exception; the call that raised is
\* the last one its session receives, and the calls before it stand as they
\* were made, once each in the prescribed order.
C7_FailurePropagates ==
    \A i \in FrameIds :
        LET f == frames[i]
            calls == CallsOf(f)
        IN /\ f.exc \in CometErrors =>
                 /\ f.pc = "raised"
                 /\ f.exp # 0 => /\ calls # <<>>
                                 /\ calls[Len(calls)].raised = f.exc
           /\ \A k \in 1..Len(calls) :
                 calls[k].raised # NoExc =>
                     /\ k = Len(calls)
                     /\ f.pc = "raised"
                     /\ f.exc = calls[k].raised
           /\ OwnCallsInOrder(calls, f)
           /\ f.exp = 0 => \A e \in 1..Len(experiments) :
                               \E j \in FrameIds \ {i} : frames[j].exp = e

C7_Witness ==
    \E i \in FrameIds :
        /\ frames[i].pc = "raised"
        /\ frames[i].exc \in CometErrors
        /\ Len(CallsOf(frames[i])) = 3
        /\ CallsOf(frames[i])[3].method = "add_tags"
        /\ CallsOf(frames[i])[3].raised = frames[i].exc
        /\ Len(frames) > i

\* C8: __call__ leaves the stored metric-name specification and the stored
\* options as __init__ set them, whether it returns or raises, and each
\* invocation that has done the name check has raised ValueError exactly
\* when the names are an explicit sequence whose length differs from that
\* trial's number of objective values, whatever happened in the others.
C8_StatelessNameCheck ==
    init.pc = "returned" =>
        /\ _metric_name = init.metric_name
        /\ _comet_kwargs = (IF init.comet_kwargs \in {PyNone, PyDict(<<>>)}
                            THEN PyDict(<<>>) ELSE init.comet_kwargs)
        /\ \A i \in FrameIds :
              frames[i].pc # "L94" =>
                  (frames[i].exc.type = "ValueError"
                      <=> /\ init.metric_name.type # "str"
                          /\ Len(init.metric_name.items) # Len(frames[i].trial.values))

C8_Witness ==
    /\ Len(frames) = 2
    /\ init.metric_name = PyList(<<a, b>>)
    /\ frames[1].pc = "raised" /\ frames[1].exc.type = "ValueError"
    /\ frames[2].pc = "returned"

\* C9: when invocations of one reporter run in parallel, under every
\* interleaving each invocation that creates a session has one of its own,
\* which receives the calls of that invocation only, with its trial's data
\* and in the prescribed order, as far as that invocation has got; and an
\* invocation raises only for its own name mismatch or its own failed
\* service call.
C9_ParallelIndependent ==
    \A i \in FrameIds :
        LET f == frames[i]
            calls == CallsOf(f)
            mismatch == /\ init.metric_name.type # "str"
                        /\ Len(init.metric_name.items) # Len(f.trial.values)
        IN /\ f.exp # 0 =>
                 /\ f.exp \in 1..Len(experiments)
                 /\ \A j \in FrameIds \ {i} : frames[j].exp # f.exp
                 /\ OwnCallsInOrder(calls, f)
           /\ f.pc \in AfterCreation =>
                 /\ f.exp # 0
                 /\ Len(calls) = Returned(f.pc)
           /\ f.pc = "raised" =>
                 \/ f.exc.type = "ValueError" /\ mismatch /\ f.exp = 0
                 \/ f.exc \in CometErrors /\ ~mismatch /\ f.exp = 0
                 \/ /\ f.exc \in CometErrors /\ ~mismatch /\ f.exp # 0
                    /\ calls # <<>>
                    /\ calls[Len(calls)].raised = f.exc
           /\ (f.pc \notin {"L94", "raised"}) => ~mismatch

C9_Witness ==
    /\ Len(frames) = 2
    /\ frames[1].thread # frames[2].thread
    /\ frames[1].exp = 2 /\ frames[2].exp = 1
    /\ frames[1].pc = "L122" /\ frames[2].pc = "L124"
    /\ frames[1].trial.values # frames[2].trial.values

\* C10: with a single string name and a trial of no objective value,
\* __call__ raises nothing of its own: it resolves the one unsuffixed name,
\* builds the empty mapping, creates a session and hands log_metrics the
\* empty mapping, followed by the remaining calls; and the mapping any
\* log_metrics receives has at most as many entries as the trial has
\* objective values.
C10_NoValues ==
    \A i \in FrameIds :
        LET f == frames[i]
            calls == CallsOf(f)
        IN /\ (IsStr(init.metric_name) /\ f.trial.values = <<>>) =>
                 /\ f.pc = "raised" => f.exc \in CometErrors
                 /\ f.pc # "L94" => f.names = <<init.metric_name>>
                 /\ f.pc \notin {"L94", "L115"} => f.metrics = PyDict(<<>>)
                 /\ f.pc \in AfterCreation =>
                       /\ f.exp # 0
                       /\ Len(calls) = Returned(f.pc)
                 /\ \A k \in 1..Len(calls) :
                       /\ calls[k].method = ExpectedCalls(f)[k].method
                       /\ calls[k].method = "log_metrics" =>
                             calls[k].args = <<PyDict(<<>>)>>
           /\ \A k \in 1..Len(calls) :
                 calls[k].method = "log_metrics" =>
                     Len(calls[k].args[1].items) <= Len(f.trial.values)

C10_Witness ==
    \E i \in FrameIds :
        /\ IsStr(init.metric_name)
        /\ frames[i].trial.values = <<>>
        /\ frames[i].pc = "returned"
        /\ Len(CallsOf(frames[i])) = 6
        /\ CallsOf(frames[i])[2].method = "log_metrics"
        /\ CallsOf(frames[i])[2].args = <<PyDict(<<>>)>>

====
